---- MODULE Spec2Model ----
(***************************************************************************)
(* Transcript-to-timeline segmentation and the playback-driven effect      *)
(* engine of the editor: the phrase grouper (groupWordsIntoPhrases), the   *)
(* fallback step generator (generateMockSteps, both copies), the zoom      *)
(* interpolation (updateZoom) with the zoom block editor, the editor       *)
(* page's step list with its one-shot from-phrases build and screenshot    *)
(* loops, the voiceover controller of the preview (mute and audio sync),   *)
(* captureVideoFrame (both copies), and the transcript editor's phrase     *)
(* edit with its save request.                                             *)
(*                                                                         *)
(* Times are integers counting ticks of 1/20 s, so 0.25 s = 5 ticks,       *)
(* 0.3 s = 6 ticks and 0.5 s = 10 ticks; arithmetic is exact (the rounding *)
(* of IEEE doubles is not modelled).  Texts are sequences of one-character *)
(* strings, so trimming and joining are computed, not assumed.             *)
(***************************************************************************)
EXTENDS Integers, Sequences, FiniteSets, TLC

VARIABLES
    words,          \* grouper: the token list handed to groupWordsIntoPhrases
    phrases,        \* grouper: the list it returned
    grouped,        \* grouper: TRUE once the call has returned
    mockCopy,       \* step generator: which copy of generateMockSteps runs
    mockDuration,   \* step generator: the duration argument
    mockInterval,   \* step generator: the intervalSeconds argument
    mockTime,       \* step generator: the local currentTime
    stepNumber,     \* step generator: the local stepNumber
    mockSteps,      \* step generator: the local steps array
    mockPc,         \* step generator: "idle", "loop" or "returned"
    zoomConfig,     \* page state zoomConfig: <<>> (null) or <<config>>
    duration,       \* page state duration, in ticks (0 until metadata loads)
    videoTime,      \* video.currentTime
    currentZoom,    \* preview state currentZoom, in units of 1/ZoomUnit
    zoomOrigin,     \* preview state zoomOrigin, <<x, y>>
    dragMode,       \* zoom block: "none", "drag", "left" or "right"
    dragStartTime,  \* zoom block: dragStartTime.current
    transcriptPhrases,  \* page state transcriptPhrases
    steps,              \* page state steps
    stepsCreatedFromTranscriptRef,  \* page ref: the one-shot latch
    capturingStepIds,   \* page state capturingStepIds
    captures,           \* screenshot loops in flight, each a list of steps
                        \* still to capture (the first one is being awaited)
    transcriptFetch,    \* "pending" until the transcript request of the
                        \* page load has been answered, then "done"
    videoMounted,       \* videoRef.current is set (the video tab is shown)
    videoListening,     \* the page's listeners are on the mounted video
    editingId,          \* transcript editor state editingId, <<>> for null
    editText,           \* transcript editor state editText
    savesInFlight,      \* transcript editor: save requests not yet answered
    liveSaves,          \* those of them sent by the editor now mounted
    latestSave,         \* the save of the mounted editor's latest edit
    isSaving,           \* transcript editor state isSaving
    hasUnsavedChanges,  \* transcript editor state hasUnsavedChanges
    voiceoverUrl,       \* preview prop voiceoverUrl: TRUE when a voiceover is set
    isMuted,            \* page state isMuted
    currentTime,        \* page state currentTime, the mirror of video.currentTime
    seekEffect,         \* the page has the effect that writes currentTime back
                        \* to the video (older copy of the page) or not
    videoMuted,         \* video.muted
    videoPaused,        \* video.paused
    audioTime,          \* audio.currentTime
    audioPaused,        \* audio.paused
    pending,            \* events of the video queued for dispatch, oldest first
    audioStartIssued,   \* the listeners that ran last called audio.play()
    videoSeekIssued,    \* the listeners that ran last wrote video.currentTime
    capCopy,            \* captureVideoFrame: which copy of the function runs
    capPc,              \* captureVideoFrame: "idle", "loading", "seeking",
                        \* "resolved" or "rejected"
    capTimestamp,       \* captureVideoFrame: the timestamp argument
    capOriginalTime,    \* captureVideoFrame: the local originalTime
    capStartTime,       \* video.currentTime when the call was made
    capExit,            \* captureVideoFrame: the exit path taken
    lastEvent           \* the handler that ran last

groupVars == <<words, phrases, grouped>>

mockVars == <<mockCopy, mockDuration, mockInterval, mockTime, stepNumber,
              mockSteps, mockPc>>

zoomVars == <<zoomConfig, duration, videoTime, currentZoom, zoomOrigin,
              dragMode, dragStartTime>>

pageVars == <<transcriptPhrases, steps, stepsCreatedFromTranscriptRef,
              capturingStepIds, captures, transcriptFetch, videoMounted,
              videoListening, editingId, editText, savesInFlight, liveSaves,
              latestSave, isSaving, hasUnsavedChanges>>

audioVars == <<voiceoverUrl, isMuted, currentTime, seekEffect, videoMuted,
               videoPaused, audioTime, audioPaused, pending, audioStartIssued,
               videoSeekIssued>>

captureVars == <<capCopy, capPc, capTimestamp, capOriginalTime, capStartTime,
                 capExit>>

editorVars == <<editingId, editText, savesInFlight, liveSaves, latestSave,
                isSaving, hasUnsavedChanges>>

vars == <<groupVars, mockVars, zoomVars, pageVars, audioVars, captureVars,
          lastEvent>>

TicksPerSecond == 20

(***************************************************************************)
(* Text helpers: String.prototype.trim and Array.prototype.join            *)
(***************************************************************************)
RECURSIVE trimStart(_)
trimStart(s) ==
    IF s # <<>> /\ Head(s) = " " THEN trimStart(Tail(s)) ELSE s

RECURSIVE trimEnd(_)
trimEnd(s) ==
    IF s # <<>> /\ s[Len(s)] = " " THEN trimEnd(SubSeq(s, 1, Len(s) - 1)) ELSE s

trim(s) == trimEnd(trimStart(s))

RECURSIVE join(_, _)
join(parts, sep) ==
    IF parts = <<>> THEN <<>>
    ELSE IF Len(parts) = 1 THEN parts[1]
    ELSE parts[1] \o sep \o join(Tail(parts), sep)

(***************************************************************************)
(* groupWordsIntoPhrases (editor page)                                     *)
(***************************************************************************)
\* default value of the pauseThreshold parameter: 0.25 s
pauseThreshold == 5

PhraseId(n) == <<"phrase", n>>

\* words.some(w => w.is_cleaned_segment)
isCleanedFormat(ws) == \E i \in 1..Len(ws) : ws[i].is_cleaned_segment

keepsEveryPhrase(p) == TRUE

\* .filter(p => p.text.trim())
keepsCleanedPhrase(p) == trim(p.text) # <<>>

\* the cleaned-transcript branch: map each entry 1:1, then filter
cleanedPhrases(ws) ==
    LET mapped == [i \in 1..Len(ws) |->
                     [id    |-> PhraseId(i - 1),
                      text  |-> ws[i].word,
                      start |-> ws[i].start,
                      end   |-> ws[i].end]]
    IN SelectSeq(mapped, keepsCleanedPhrase)

pauseExceeded(gap, threshold) == gap > threshold

everyGapSplits(gap, threshold) == TRUE

\* gap >= pauseThreshold
pauseReached(gap, threshold) == gap >= threshold

\* start of the initial currentPhrase: words[0]?.start || 0
initialPhraseStart(ws) == ws[1].start

\* phrases.push({ ...currentPhrase }) after currentPhrase.text has been set,
\* guarded by  if (currentPhrase.text)
pushPhrase(acc, cur) ==
    LET text == trim(join(cur.words, <<" ">>))
    IN IF text # <<>>
       THEN Append(acc, [id |-> cur.id, text |-> text,
                         start |-> cur.start, end |-> cur.end])
       ELSE acc

\* the for loop over words, from index i (1-based) on
RECURSIVE groupLoop(_, _, _, _, _)
groupLoop(ws, threshold, i, acc, cur) ==
    IF i > Len(ws)
    THEN IF cur.words # <<>> THEN pushPhrase(acc, cur) ELSE acc
    ELSE
        LET word     == ws[i]
            wordText == trim(word.word)
        IN IF wordText = <<>>
           THEN groupLoop(ws, threshold, i + 1, acc, cur)
           ELSE
             LET split == /\ i > 1
                          /\ cur.words # <<>>
                          /\ pauseReached(word.start - cur.end, threshold)
                 acc1  == IF split THEN pushPhrase(acc, cur) ELSE acc
                 cur1  == IF split
                          THEN [id    |-> PhraseId(Len(acc1)),
                                start |-> word.start,
                                end   |-> word.end,
                                words |-> <<>>]
                          ELSE cur
                 cur2  == [cur1 EXCEPT !.words = Append(@, wordText),
                                       !.end   = word.end]
             IN groupLoop(ws, threshold, i + 1, acc1, cur2)

groupWordsIntoPhrases(ws, threshold) ==
    IF ws = <<>> THEN <<>>
    ELSE IF isCleanedFormat(ws) THEN cleanedPhrases(ws)
    ELSE groupLoop(ws, threshold, 1, <<>>,
                   [id    |-> PhraseId(0),
                    start |-> initialPhraseStart(ws),
                    end   |-> ws[1].end,
                    words |-> <<>>])

(***************************************************************************)
(* JavaScript numbers: a finite value, NaN, Infinity or -Infinity          *)
(***************************************************************************)
Num(n) == <<"num", n>>
NaN == <<"nan", 0>>
Infinity == <<"inf", 1>>
NegInfinity == <<"inf", -1>>

\* Number.isFinite
isFinite(x) == x[1] = "num"

\* a < b (false when either side is NaN)
lessThan(a, b) ==
    IF a[1] = "nan" \/ b[1] = "nan" THEN FALSE
    ELSE IF a[1] = "num" /\ b[1] = "num" THEN a[2] < b[2]
    ELSE IF a[1] = "inf" /\ b[1] = "inf" THEN a[2] < b[2]
    ELSE IF a[1] = "inf" THEN a[2] < 0
    ELSE b[2] > 0

\* a <= b (false when either side is NaN)
lessEq(a, b) == lessThan(a, b) \/ (a[1] # "nan" /\ a = b)

\* a + b
plus(a, b) ==
    IF a[1] = "nan" \/ b[1] = "nan" THEN NaN
    ELSE IF a[1] = "num" /\ b[1] = "num" THEN Num(a[2] + b[2])
    ELSE IF a[1] = "inf" /\ b[1] = "inf" THEN (IF a = b THEN a ELSE NaN)
    ELSE IF a[1] = "inf" THEN a
    ELSE b

\* Math.min(a, b)
mathMin(a, b) ==
    IF a[1] = "nan" \/ b[1] = "nan" THEN NaN
    ELSE IF lessThan(b, a) THEN b ELSE a

(***************************************************************************)
(* generateMockSteps: the copy with the duration guard and the step cap,   *)
(* and the copy in lib/videoUtils.ts that has neither                      *)
(***************************************************************************)
\* const maxSteps = 100
maxSteps == 100

\* longest accepted duration: 3600 s
maxMockDuration == 3600 * TicksPerSecond

\* default value of the intervalSeconds parameter: 7 s
defaultInterval == 7 * TicksPerSecond

\* !Number.isFinite(duration) || duration <= 0 || duration > 3600
rejectsDuration(d) ==
    \/ ~isFinite(d)
    \/ lessEq(d, Num(0))
    \/ lessThan(Num(maxMockDuration), d)

untruncatedEnd(time, interval, d) == plus(time, interval)

\* Math.min(currentTime + intervalSeconds, duration)
windowEnd(time, interval, d) == mathMin(plus(time, interval), d)

\* the object pushed for one window
mockStep(n, time, endTime) ==
    [id         |-> <<"step", n>>,
     startTime  |-> time,
     endTime    |-> endTime,
     transcript |-> <<"This is step", n>>,
     title      |-> <<"Step", n>>]

\* the while condition of each copy
loopContinues(copy, time, d, n) ==
    IF copy = "guarded"
    THEN lessThan(time, d) /\ n <= maxSteps
    ELSE lessThan(time, d)

(***************************************************************************)
(* Zoom interpolation: updateZoom of the video preview                     *)
(***************************************************************************)
\* const transitionDuration = 0.3
transitionDuration == 6

\* zoom levels are counted in hundredths: 1.5x is 150
LevelUnit == 100

\* currentZoom is counted in units of 1 / ZoomUnit, so that the ramps, which
\* divide by transitionDuration, stay exact: 1.0 is ZoomUnit
ZoomUnit == LevelUnit * transitionDuration

Min(a, b) == IF a < b THEN a ELSE b
Max(a, b) == IF a > b THEN a ELSE b

\* const { centerX = 50, centerY = 50 } = zoomConfig
centerOf(cfg) == IF cfg.center = <<>> THEN <<50, 50>> ELSE cfg.center

\* zooming in: 1 + (zoomLevel - 1) * Math.min(progress, 1),
\* progress = (time - startTime) / transitionDuration
zoomInValue(level, time, startTime) ==
    ZoomUnit + (level - LevelUnit) * Min(time - startTime, transitionDuration)

zoomOutSkipped(level, time, zoomOutStart) == level * transitionDuration

zoomOutBelowOne(level, time, zoomOutStart) ==
    ZoomUnit - (level - LevelUnit) * Min(time - zoomOutStart, transitionDuration)

\* zooming out: zoomLevel - (zoomLevel - 1) * Math.min(progress, 1),
\* progress = (time - zoomOutStart) / transitionDuration
zoomOutValue(level, time, zoomOutStart) ==
    level * transitionDuration
        - (level - LevelUnit) * Min(time - zoomOutStart, transitionDuration)

\* the value updateZoom passes to setCurrentZoom
zoomAt(cfg, time) ==
    IF time >= cfg.startTime /\ time <= cfg.endTime
    THEN LET zoomInEnd    == cfg.startTime + transitionDuration
             zoomOutStart == cfg.endTime - transitionDuration
         IN IF time < zoomInEnd
            THEN zoomInValue(cfg.zoomLevel, time, cfg.startTime)
            ELSE IF time > zoomOutStart
            THEN zoomOutValue(cfg.zoomLevel, time, zoomOutStart)
            ELSE cfg.zoomLevel * transitionDuration
    ELSE ZoomUnit

\* zoomConfig?.enabled
zoomEnabled(zc) == zc # <<>> /\ zc[1].enabled

(***************************************************************************)
(* The zoom block of the timeline: Add Zoom and the three drag modes       *)
(***************************************************************************)
\* minimum width kept by the two resize modes: 0.5 s
minZoomWidth == 10

\* longest region Add Zoom creates: 3 s
addZoomLength == 3 * TicksPerSecond

\* the page passes duration || 15 to the timeline
timelineDuration(d) == IF d = 0 THEN 15 * TicksPerSecond ELSE d

\* timeline: Number.isFinite(duration) && duration > 0 ? duration : 0
timelineSafeDuration(d) == IF d > 0 THEN d ELSE 0

\* zoom block: duration > 0 ? duration : 1
blockSafeDuration(d) == IF d > 0 THEN d ELSE TicksPerSecond

\* the safeDuration the zoom block computes with, from the page's duration
safeDuration(d) == blockSafeDuration(timelineSafeDuration(timelineDuration(d)))

\* Math.min(3, safeDuration - currentTime)
addZoomDuration(time, d) ==
    Min(addZoomLength, timelineSafeDuration(timelineDuration(d)) - time)

\* the config the Add Zoom button passes to onZoomChange
addedZoom(time, d) ==
    [enabled   |-> TRUE,
     startTime |-> time,
     endTime   |-> time + addZoomDuration(time, d),
     zoomLevel |-> 150,
     center    |-> <<50, 50>>]

\* dragStartTime.current set by handleMouseDown
dragAnchor(zoom, type) ==
    IF type = "left" THEN zoom.startTime
    ELSE IF type = "right" THEN zoom.endTime
    ELSE zoom.startTime

movedStartOnly(zoom, anchor, deltaTime, safe) ==
    [zoom EXCEPT !.startTime = Max(0, Min(safe - minZoomWidth, anchor + deltaTime))]

\* isDragging: move the entire block
movedZoom(zoom, anchor, deltaTime, safe) ==
    LET zoomDuration == zoom.endTime - zoom.startTime
        newStart     == Max(0, Min(safe - zoomDuration, anchor + deltaTime))
    IN [zoom EXCEPT !.startTime = newStart, !.endTime = newStart + zoomDuration]

\* isResizingLeft: resize from the left edge
resizedLeft(zoom, anchor, deltaTime, safe) ==
    LET newStart == Max(0, Min(zoom.endTime - minZoomWidth, anchor + deltaTime))
    IN [zoom EXCEPT !.startTime = newStart]

\* isResizingRight: resize from the right edge
resizedRight(zoom, anchor, deltaTime, safe) ==
    LET newEnd == Max(zoom.startTime + minZoomWidth, Min(safe, anchor + deltaTime))
    IN [zoom EXCEPT !.endTime = newEnd]

(***************************************************************************)
(* The editor page: the step list and its two automatic builds             *)
(***************************************************************************)
\* generateMockSteps as one call (the copy with the guard and the cap)
RECURSIVE mockLoop(_, _, _, _, _)
mockLoop(d, interval, time, n, acc) ==
    IF loopContinues("guarded", time, d, n)
    THEN LET endTime == windowEnd(time, interval, d)
         IN mockLoop(d, interval, endTime, n + 1,
                     Append(acc, mockStep(n, time, endTime)))
    ELSE acc

generateMockSteps(d, interval) ==
    IF rejectsDuration(d) THEN <<>>
    ELSE mockLoop(d, interval, Num(0), 1, <<>>)

\* mockSteps.map(step => ({ ...step, screenshot: undefined })), with the
\* times as plain ticks
fallbackSteps(d) ==
    LET mock == generateMockSteps(Num(d), Num(defaultInterval))
    IN [k \in 1..Len(mock) |->
          [id         |-> mock[k].id,
           startTime  |-> mock[k].startTime[2],
           endTime    |-> mock[k].endTime[2],
           title      |-> mock[k].title,
           transcript |-> mock[k].transcript,
           screenshot |-> <<>>]]

stepsTitledAlike(ps) ==
    [k \in 1..Len(ps) |->
       [id         |-> ps[k].id,
        startTime  |-> ps[k].start,
        endTime    |-> ps[k].end,
        title      |-> <<"Step", 1>>,
        transcript |-> ps[k].text,
        screenshot |-> <<>>]]

\* transcriptPhrases.map((phrase, index) => ({ ... }))
stepsFromPhrases(ps) ==
    [k \in 1..Len(ps) |->
       [id         |-> ps[k].id,
        startTime  |-> ps[k].start,
        endTime    |-> ps[k].end,
        title      |-> <<"Step", k>>,
        transcript |-> ps[k].text,
        screenshot |-> <<>>]]

latchIgnored(ref) == FALSE

\* if (stepsCreatedFromTranscriptRef.current) return
alreadyCreated(ref) == ref

\* the guard of generateSteps: it builds the fallback steps
fallbackBuilds(d, ps, ss, ref, mounted) ==
    /\ mounted
    /\ d # 0
    /\ ~(Len(ps) > 0 \/ Len(ss) > 0 \/ ref)

\* the guards of createStepsFromPhrases: it builds the steps from the phrases
phrasesBuild(d, ps, ref, mounted) ==
    /\ Len(ps) > 0
    /\ d # 0
    /\ mounted
    /\ ~alreadyCreated(ref)

\* the list of <<step id, capture time>> a build's screenshot loop goes through
captureQueue(ss) == [k \in 1..Len(ss) |-> <<ss[k].id, ss[k].startTime>>]

keepsId(ids, id) == ids

\* prev.filter(id => id !== stepId)
withoutId(ids, id) == SelectSeq(ids, LAMBDA x : x # id)

\* prevSteps.map(s => s.id === id ? { ...s, screenshot } : s)
withScreenshot(ss, id, shot) ==
    [k \in 1..Len(ss) |->
       IF ss[k].id = id THEN [ss[k] EXCEPT !.screenshot = <<shot>>] ELSE ss[k]]

\* prevSteps.map(step => step.id === id ? { ...step, ...updates } : step),
\* for an update of the title
withTitle(ss, id, title) ==
    [k \in 1..Len(ss) |->
       IF ss[k].id = id THEN [ss[k] EXCEPT !.title = title] ELSE ss[k]]

\* prevSteps.filter(step => step.id !== id)
withoutStep(ss, id) == SelectSeq(ss, LAMBDA x : x.id # id)

textOfEveryPhrase(ps, id, text) ==
    [k \in 1..Len(ps) |-> [ps[k] EXCEPT !.text = text]]

\* phrases.map(p => p.id === id ? { ...p, text: editText } : p)
withPhraseText(ps, id, text) ==
    [k \in 1..Len(ps) |->
       IF ps[k].id = id THEN [ps[k] EXCEPT !.text = text] ELSE ps[k]]

stepDropped(ss, id) == SelectSeq(ss, LAMBDA st : st.id # id)

\* the steps after a capture that failed: the catch blocks only log
afterFailedCapture(ss, id) == ss

\* the step handleAddStep appends
newStep(n, time, d) ==
    [id         |-> <<"step-added", n>>,
     startTime  |-> time,
     endTime    |-> Min(time + 7 * TicksPerSecond, d),
     title      |-> <<"New Step">>,
     transcript |-> <<"Enter step description here...">>,
     screenshot |-> <<>>]

\* where the capture of a loop's step begins: createStepsFromPhrases tries
\* captureFrameFromUrl first, the other callers call captureVideoFrame on the
\* live video
firstStage(kind) == IF kind = "phrases" THEN "url" ELSE "called"

\* a screenshot loop at its first step; originalTime is the position the
\* running captureVideoFrame stored
newLoop(kind, queue) ==
    [kind |-> kind, queue |-> queue, stage |-> firstStage(kind),
     originalTime |-> 0]

\* the two step-building effects after a commit: generateSteps runs when
\* duration, transcriptPhrases.length or steps.length changed (genDeps),
\* createStepsFromPhrases when transcriptPhrases or duration changed
\* (createDeps); each runs up to its first await
afterEffects(d, ps, ss, ref, ids, caps, mounted, genDeps, createDeps) ==
    LET gen    == genDeps /\ fallbackBuilds(d, ps, ss, ref, mounted)
        create == createDeps /\ phrasesBuild(d, ps, ref, mounted)
        built  == IF gen THEN fallbackSteps(d)
                  ELSE IF create THEN stepsFromPhrases(ps)
                  ELSE ss
        queue  == captureQueue(built)
        starts == (gen \/ create) /\ queue # <<>>
        kind   == IF gen THEN "fallback" ELSE "phrases"
    IN [steps    |-> built,
        ref      |-> (ref \/ create),
        ids      |-> IF starts THEN Append(ids, queue[1][1]) ELSE ids,
        captures |-> IF starts
                     THEN Append(caps, newLoop(kind, queue))
                     ELSE caps]

(***************************************************************************)
(* The preview's voiceover controller: forced mute and audio sync          *)
(***************************************************************************)
\* the drift above which syncAudio corrects the audio position: 0.5 s
driftTolerance == 10

\* Math.abs(video.currentTime - audio.currentTime)
drift(vTime, aTime) == IF vTime >= aTime THEN vTime - aTime ELSE aTime - vTime

driftReaches(vTime, aTime) == drift(vTime, aTime) >= driftTolerance

\* Math.abs(video.currentTime - audio.currentTime) > 0.5
driftExceeds(vTime, aTime) == drift(vTime, aTime) > driftTolerance

\* what a listener asks of the audio element: its new currentTime, whether
\* it calls play() and whether it calls pause()
AudioRequest(time, play, pause) == [time |-> time, play |-> play, pause |-> pause]

\* syncAudio, the timeupdate listener
syncAudio(vPaused, vTime, aPaused, aTime) ==
    IF ~vPaused
    THEN IF aPaused THEN AudioRequest(vTime, TRUE, FALSE)
         ELSE IF driftExceeds(vTime, aTime) THEN AudioRequest(vTime, FALSE, FALSE)
         ELSE AudioRequest(aTime, FALSE, FALSE)
    ELSE AudioRequest(aTime, FALSE, FALSE)

seeksAudioToStart(vTime) == AudioRequest(0, FALSE, FALSE)

seekStartsAudio(vTime) == AudioRequest(vTime, TRUE, FALSE)

\* handlePlay, handlePause and handleSeeked
handlePlay(vTime) == AudioRequest(vTime, TRUE, FALSE)
handlePause(aTime) == AudioRequest(aTime, FALSE, TRUE)
handleSeeked(vTime) == AudioRequest(vTime, FALSE, FALSE)

\* the sync effect's listener for an event of the video
audioListener(event, vPaused, vTime, aPaused, aTime) ==
    IF event = "timeupdate" THEN syncAudio(vPaused, vTime, aPaused, aTime)
    ELSE IF event = "play" THEN handlePlay(vTime)
    ELSE IF event = "pause" THEN handlePause(aTime)
    ELSE IF event = "seeked" THEN handleSeeked(vTime)
    ELSE AudioRequest(aTime, FALSE, FALSE)

\* forceMute, the volumechange listener: video.muted afterwards
forceMute(muted) == IF ~muted THEN TRUE ELSE muted

\* the muted prop of the video element: !!voiceoverUrl || isMuted
mutedProp(voiceover, pageMuted) == voiceover \/ pageMuted

\* video.muted after a render: React writes the property only when the prop
\* changed
renderedMuted(oldProp, newProp, muted) == IF newProp # oldProp THEN newProp ELSE muted

\* the events a change of video.muted queues
volumeEvents(oldMuted, newMuted) ==
    IF newMuted # oldMuted THEN <<"volumechange">> ELSE <<>>

(***************************************************************************)
(* captureVideoFrame: a screenshot taken by seeking the live video         *)
(***************************************************************************)
\* !Number.isFinite(timestamp) || timestamp < 0 does not hold
validTimestamp(ts) == isFinite(ts) /\ ~lessThan(ts, Num(0))

\* Math.min(timestamp, video.duration || timestamp)
clampedTimestamp(ts, d) == IF d = 0 THEN ts ELSE mathMin(ts, Num(d))

\* video.currentTime after the assignment video.currentTime = ts: the
\* element keeps the position inside [0, video.duration]
seekPosition(ts, d) == Max(0, Min(ts[2], d))

\* the value each copy assigns to video.currentTime
captureTarget(copy, ts, d) ==
    IF copy = "timed" THEN clampedTimestamp(ts, d) ELSE ts

\* the call rejects before it seeks: the newer copy validates the timestamp,
\* in the older one the assignment of a non-finite value throws
rejectsTimestamp(copy, ts) ==
    IF copy = "timed" THEN ~validTimestamp(ts) ELSE ~isFinite(ts)

(***************************************************************************)
(* The state of each part before any event                                 *)
(***************************************************************************)
\* the grouper before any call
GroupIdle == words = <<>> /\ phrases = <<>> /\ grouped = FALSE

\* the step generator before any call
MockIdle ==
    /\ mockCopy = "guarded"
    /\ mockDuration = Num(0)
    /\ mockInterval = Num(defaultInterval)
    /\ mockTime = Num(0)
    /\ stepNumber = 1
    /\ mockSteps = <<>>
    /\ mockPc = "idle"

\* the preview and the zoom block before any event
ZoomIdle ==
    /\ zoomConfig = <<>>
    /\ duration = 0
    /\ videoTime = 0
    /\ currentZoom = ZoomUnit
    /\ zoomOrigin = <<50, 50>>
    /\ dragMode = "none"
    /\ dragStartTime = 0

\* the editor page after the project has been fetched
PageIdle ==
    /\ transcriptPhrases = <<>>
    /\ steps = <<>>
    /\ stepsCreatedFromTranscriptRef = FALSE
    /\ capturingStepIds = <<>>
    /\ captures = <<>>
    /\ transcriptFetch = "pending"
    /\ videoMounted = TRUE
    /\ videoListening = TRUE
    /\ editingId = <<>>
    /\ editText = <<>>
    /\ savesInFlight = 0
    /\ liveSaves = 0
    /\ latestSave = "none"
    /\ isSaving = FALSE
    /\ hasUnsavedChanges = FALSE

\* the preview before any voiceover exists, the video paused at 0
PreviewIdle ==
    /\ voiceoverUrl = FALSE
    /\ isMuted = FALSE
    /\ currentTime = 0
    /\ videoMuted = FALSE
    /\ videoPaused = TRUE
    /\ audioTime = 0
    /\ audioPaused = TRUE
    /\ pending = <<>>
    /\ audioStartIssued = FALSE
    /\ videoSeekIssued = FALSE

\* the newer copy of the page has no write-back effect
AudioIdle == PreviewIdle /\ seekEffect = FALSE

\* no capture on the live video has been called
CaptureIdle ==
    /\ capCopy = "timed"
    /\ capPc = "idle"
    /\ capTimestamp = Num(0)
    /\ capOriginalTime = 0
    /\ capStartTime = 0
    /\ capExit = "none"

(***************************************************************************)
(* Specification SpecGroup: token lists are built word by word and then    *)
(* grouped with the default threshold.                                     *)
(***************************************************************************)
MaxWords == 3

\* token texts: empty, whitespace only, a plain word, a word with padding
WordTexts == { <<>>, <<" ">>, <<"a">>, <<" ", "b", " ">> }

\* silence before a token: just below the threshold, and the threshold; and
\* a token that starts one tick before the previous one has ended
Gaps == { -1, pauseThreshold - 1, pauseThreshold }

\* length of one spoken token, in ticks
WordTicks == 2

GroupFrame ==
    UNCHANGED <<mockVars, zoomVars, pageVars, audioVars, captureVars, lastEvent>>

AddWord ==
    /\ ~grouped
    /\ Len(words) < MaxWords
    /\ \E text \in WordTexts, gap \in Gaps, cleaned \in BOOLEAN :
         LET prevEnd == IF words = <<>> THEN 0 ELSE words[Len(words)].end
             start   == prevEnd + gap
         IN words' = Append(words, [word |-> text,
                                    start |-> start,
                                    end |-> start + WordTicks,
                                    is_cleaned_segment |-> cleaned])
    /\ UNCHANGED <<phrases, grouped>>
    /\ GroupFrame

Group ==
    /\ ~grouped
    /\ phrases' = groupWordsIntoPhrases(words, pauseThreshold)
    /\ grouped' = TRUE
    /\ UNCHANGED words
    /\ GroupFrame

InitGroup == GroupIdle /\ MockIdle /\ ZoomIdle /\ PageIdle /\ AudioIdle
      /\ CaptureIdle /\ lastEvent = "none"

NextGroup == AddWord \/ Group

SpecGroup == InitGroup /\ [][NextGroup]_vars

(***************************************************************************)
(* Claims about the grouper                                                *)
(***************************************************************************)
hasText(w) == trim(w.word) # <<>>

\* the tokens that carry text, in input order
spokenWords(ws) == SelectSeq(ws, hasText)

noneCleaned(ws) == \A i \in 1..Len(ws) : ~ws[i].is_cleaned_segment

allCleaned(ws) == ws # <<>> /\ \A i \in 1..Len(ws) : ws[i].is_cleaned_segment

\* positions (in the spoken tokens) at which the claim says a phrase starts
phraseStarts(sp, threshold) ==
    { j \in 1..Len(sp) : j = 1 \/ sp[j].start - sp[j - 1].end >= threshold }

kthStart(starts, k) ==
    CHOOSE j \in starts : Cardinality({ x \in starts : x < j }) = k - 1

trimmedTexts(sp, from, to) == [n \in 1..(to - from + 1) |-> trim(sp[from + n - 1].word)]

\* C2: for word-level tokens (none pre-grouped) a phrase starts exactly at the
\* first token with text and at every token with text whose start lies at
\* least the threshold after the end of the previous token with text; each
\* phrase's text is its tokens' trimmed texts joined by one space, its end is
\* its last token's end, and the ids are phrase-0, phrase-1, ... in order.
C2_PauseBoundaries ==
    (grouped /\ noneCleaned(words)) =>
        LET sp     == spokenWords(words)
            starts == phraseStarts(sp, pauseThreshold)
        IN /\ Len(phrases) = Cardinality(starts)
           /\ \A k \in 1..Len(phrases) :
                LET from == kthStart(starts, k)
                    to   == IF k = Len(phrases) THEN Len(sp)
                            ELSE kthStart(starts, k + 1) - 1
                IN /\ phrases[k].text = join(trimmedTexts(sp, from, to), <<" ">>)
                   /\ phrases[k].end = sp[to].end
                   /\ phrases[k].id = PhraseId(k - 1)

C2_Witness ==
    /\ grouped
    /\ noneCleaned(words)
    /\ Len(spokenWords(words)) = 3
    /\ Len(phrases) = 2
    /\ phrases[1].text = <<"a", " ", "b">>

\* C3: when every token is pre-grouped the output is the tokens with text, in
\* order, one phrase per token, carrying that token's text, start and end.
C3_CleanedPassthrough ==
    (grouped /\ allCleaned(words)) =>
        LET sp == spokenWords(words)
        IN /\ Len(phrases) = Len(sp)
           /\ \A k \in 1..Len(phrases) :
                /\ phrases[k].text = sp[k].word
                /\ phrases[k].start = sp[k].start
                /\ phrases[k].end = sp[k].end

C3_Witness ==
    /\ grouped
    /\ allCleaned(words)
    /\ Len(words) = 3
    /\ Len(phrases) = 2
    /\ ~hasText(words[2])
    /\ phrases[2].text = <<" ", "b", " ">>

phraseSpans(ps) == [k \in 1..Len(ps) |->
                      <<ps[k].text, ps[k].start, ps[k].end>>]

\* C4: a token without text does not influence the phrases: grouping a
\* word-level list gives the same (text, start, end) as grouping the list
\* with the empty-text tokens removed, also when the first token is empty.
C4_EmptyTokensIgnored ==
    (grouped /\ noneCleaned(words)) =>
        phraseSpans(phrases) =
            phraseSpans(groupWordsIntoPhrases(spokenWords(words), pauseThreshold))

\* the pause-gap grouping of a token list, whatever its flags
groupedByPauses(ws) ==
    groupLoop(ws, pauseThreshold, 1, <<>>,
              [id    |-> PhraseId(0),
               start |-> initialPhraseStart(ws),
               end   |-> ws[1].end,
               words |-> <<>>])

someRaw(ws) == \E i \in 1..Len(ws) : ~ws[i].is_cleaned_segment

\* C22: the 1:1 passthrough is taken only when every token is pre-grouped: a
\* list with at least one token without the flag is grouped by pauses.
C22_MixedListIsGrouped ==
    (grouped /\ words # <<>> /\ someRaw(words)) =>
        phrases = groupedByPauses(words)

\* C23: for word-level tokens, each with start <= end and ordered by time,
\* every phrase has start <= end, and each phrase starts at least the pause
\* threshold after the end of the phrase before it.
C23_PhrasesOrdered ==
    (grouped /\ noneCleaned(words)) =>
        /\ \A i \in 1..Len(phrases) : phrases[i].start <= phrases[i].end
        /\ \A i \in 1..(Len(phrases) - 1) :
             phrases[i + 1].start - phrases[i].end >= pauseThreshold

\* three spoken words: the second follows the first below the threshold, the
\* third follows at the threshold and opens the second phrase
C23_Witness ==
    /\ grouped
    /\ noneCleaned(words)
    /\ Len(spokenWords(words)) = 3
    /\ Len(phrases) = 2
    /\ phrases[2].start - phrases[1].end = pauseThreshold

(***************************************************************************)
(* Specification SpecMock: one call of generateMockSteps, its loop run one *)
(* iteration per step.                                                     *)
(***************************************************************************)
\* iterations of the loop that are followed before the exploration stops
MaxIterations == 102

MockCopies == { "guarded", "unguarded" }

MockDurations ==
    { NaN, Infinity, Num(-TicksPerSecond), Num(0), Num(1),
      Num(25 * TicksPerSecond), Num(maxSteps * defaultInterval),
      Num(maxSteps * defaultInterval + 1),
      Num(maxMockDuration), Num(maxMockDuration + 1),
      Num(5000 * TicksPerSecond) }

MockIntervals ==
    { Num(defaultInterval), Num(TicksPerSecond), Num(maxMockDuration),
      Num(0), Num(-defaultInterval), NaN, Infinity, NegInfinity }

MockFrame ==
    UNCHANGED <<groupVars, zoomVars, pageVars, audioVars, captureVars, lastEvent>>

\* entry of generateMockSteps(duration, intervalSeconds)
CallGenerateMockSteps ==
    /\ mockPc = "idle"
    /\ \E copy \in MockCopies, d \in MockDurations,
          interval \in MockIntervals :
         /\ mockCopy' = copy
         /\ mockDuration' = d
         /\ mockInterval' = interval
         /\ mockPc' = IF copy = "guarded" /\ rejectsDuration(d)
                      THEN "returned" ELSE "loop"
    /\ mockTime' = Num(0)
    /\ stepNumber' = 1
    /\ mockSteps' = <<>>
    /\ MockFrame

\* one iteration of the while loop
MockLoopStep ==
    /\ mockPc = "loop"
    /\ stepNumber <= MaxIterations
    /\ loopContinues(mockCopy, mockTime, mockDuration, stepNumber)
    /\ LET endTime == windowEnd(mockTime, mockInterval, mockDuration)
       IN /\ mockSteps' = Append(mockSteps, mockStep(stepNumber, mockTime, endTime))
          /\ mockTime' = endTime
    /\ stepNumber' = stepNumber + 1
    /\ UNCHANGED <<mockCopy, mockDuration, mockInterval, mockPc>>
    /\ MockFrame

\* the while condition fails: return steps
MockReturn ==
    /\ mockPc = "loop"
    /\ ~loopContinues(mockCopy, mockTime, mockDuration, stepNumber)
    /\ mockPc' = "returned"
    /\ UNCHANGED <<mockCopy, mockDuration, mockInterval, mockTime, stepNumber,
                   mockSteps>>
    /\ MockFrame

InitMock == GroupIdle /\ MockIdle /\ ZoomIdle /\ PageIdle /\ AudioIdle
      /\ CaptureIdle /\ lastEvent = "none"

NextMock == CallGenerateMockSteps \/ MockLoopStep \/ MockReturn

SpecMock == InitMock /\ [][NextMock]_vars

(***************************************************************************)
(* Claims about the step generator                                         *)
(***************************************************************************)
\* a returned call of the guarded copy with a valid duration and interval > 0
validMockCall ==
    /\ mockPc = "returned"
    /\ mockCopy = "guarded"
    /\ ~rejectsDuration(mockDuration)
    /\ lessThan(Num(0), mockInterval)

\* consecutive windows from 0, each but the last exactly one interval long
consecutiveWindows ==
    /\ mockSteps # <<>>
    /\ mockSteps[1].startTime = Num(0)
    /\ \A k \in 2..Len(mockSteps) :
         mockSteps[k].startTime = mockSteps[k - 1].endTime
    /\ \A k \in 1..(Len(mockSteps) - 1) :
         mockSteps[k].endTime = plus(mockSteps[k].startTime, mockInterval)

\* the duration needs no more than maxSteps windows
fitsStepCap ==
    ~isFinite(mockInterval) \/ mockDuration[2] <= maxSteps * mockInterval[2]

\* C5 as stated: for a valid duration d and interval i > 0 the steps partition
\* [0, d): first start 0, each step starts where the previous one ends, every
\* step but the last is exactly i long, and the last step ends at d.
C5_PartitionsDuration ==
    validMockCall =>
        /\ consecutiveWindows
        /\ mockSteps[Len(mockSteps)].endTime = mockDuration

\* C5 amended: the windows are consecutive from 0 and each but the last is i
\* long; the last ends at d when d <= 100 * i, and otherwise exactly 100
\* windows are returned, the last ending at 100 * i, short of d.
C5_PartitionsUpToCap ==
    validMockCall =>
        /\ consecutiveWindows
        /\ fitsStepCap =>
             mockSteps[Len(mockSteps)].endTime = mockDuration
        /\ ~fitsStepCap =>
             /\ Len(mockSteps) = maxSteps
             /\ mockSteps[Len(mockSteps)].endTime = Num(maxSteps * mockInterval[2])

C5_Witness ==
    /\ validMockCall
    /\ mockDuration = Num(25 * TicksPerSecond)
    /\ mockInterval = Num(defaultInterval)
    /\ Len(mockSteps) = 4
    /\ mockSteps[4].startTime = Num(21 * TicksPerSecond)
    /\ mockSteps[4].endTime = Num(25 * TicksPerSecond)

\* C6: generateMockSteps returns the empty list whenever the duration is not
\* finite, is zero or negative, or exceeds 3600 s (no step is ever produced
\* for such a duration), and a duration of exactly 3600 s is accepted.
C6_InvalidDurationGivesNoSteps ==
    /\ (mockPc # "idle" /\ rejectsDuration(mockDuration)) => mockSteps = <<>>
    /\ (mockPc = "returned" /\ mockDuration = Num(maxMockDuration)
          /\ lessThan(Num(0), mockInterval)) => mockSteps # <<>>

\* C7: generateMockSteps never holds more than 100 steps, whatever the
\* duration and the interval (so its loop ends and at most 100 are returned).
C7_AtMostMaxSteps == Len(mockSteps) <= maxSteps

(***************************************************************************)
(* Specification SpecZoom: a zoom config is set (loaded or changed) and    *)
(* the video reports playback times.                                       *)
(***************************************************************************)
MaxVideoTime == 18

ZoomStarts == { 2 }
ZoomWidths == { 4, 10, 12, 14 }
ZoomLevels == { 100, 150, 250 }
ZoomCenters == { <<>>, <<0, 100>> }

ZoomInputs ==
    { <<>> } \cup
    { <<[enabled |-> e, startTime |-> st, endTime |-> st + w,
         zoomLevel |-> l, center |-> c]>> :
        e \in BOOLEAN, st \in ZoomStarts, w \in ZoomWidths,
        l \in ZoomLevels, c \in ZoomCenters }

ZoomFrame ==
    UNCHANGED <<groupVars, mockVars, pageVars, audioVars, captureVars, duration,
                dragMode, dragStartTime>>

\* setZoomConfig, then the zoom effect of the preview re-runs
ZoomConfigChange ==
    /\ \E zc \in ZoomInputs :
         /\ zc # zoomConfig
         /\ zoomConfig' = zc
         /\ currentZoom' = IF zoomEnabled(zc) THEN currentZoom ELSE ZoomUnit
    /\ lastEvent' = "zoomchange"
    /\ UNCHANGED <<videoTime, zoomOrigin>>
    /\ ZoomFrame

\* updateZoom, the listener of timeupdate and seeked while a zoom is enabled
updateZoom(time) ==
    IF zoomEnabled(zoomConfig)
    THEN LET cfg == zoomConfig[1]
         IN /\ currentZoom' = zoomAt(cfg, time)
            /\ zoomOrigin' = IF time >= cfg.startTime /\ time <= cfg.endTime
                             THEN centerOf(cfg) ELSE zoomOrigin
    ELSE UNCHANGED <<currentZoom, zoomOrigin>>

VideoTimeUpdate ==
    /\ \E t \in 0..MaxVideoTime :
         /\ videoTime' = t
         /\ updateZoom(t)
    /\ lastEvent' = "timeupdate"
    /\ UNCHANGED zoomConfig
    /\ ZoomFrame

VideoSeeked ==
    /\ \E t \in 0..MaxVideoTime :
         /\ videoTime' = t
         /\ updateZoom(t)
    /\ lastEvent' = "seeked"
    /\ UNCHANGED zoomConfig
    /\ ZoomFrame

InitZoom == GroupIdle /\ MockIdle /\ ZoomIdle /\ PageIdle /\ AudioIdle
      /\ CaptureIdle /\ lastEvent = "none"

NextZoom == ZoomConfigChange \/ VideoTimeUpdate \/ VideoSeeked

SpecZoom == InitZoom /\ [][NextZoom]_vars

(***************************************************************************)
(* Claims about the zoom interpolation                                     *)
(***************************************************************************)
\* updateZoom has just run for an enabled region
zoomSampled == zoomEnabled(zoomConfig) /\ lastEvent \in { "timeupdate", "seeked" }

\* C8: for an enabled region at least 0.6 s wide with target L the
\* magnification at time t is 1.0 outside [start, end], 1.0 + (L-1)(t-start)/0.3
\* on the first 0.3 s, L between the ramps and L - (L-1)(t-(end-0.3))/0.3 on
\* the last 0.3 s; so it is 1.0 at start and end, L at start+0.3 and end-0.3,
\* and the value at start+d equals the value at end-d for 0 <= d <= 0.3.
C8_RampProfile ==
    (zoomSampled /\ zoomConfig[1].endTime - zoomConfig[1].startTime
                        >= 2 * transitionDuration) =>
        LET cfg == zoomConfig[1]
            st  == cfg.startTime
            en  == cfg.endTime
            L   == cfg.zoomLevel
            t   == videoTime
        IN /\ (t < st \/ t > en) => currentZoom = ZoomUnit
           /\ (st <= t /\ t <= st + transitionDuration) =>
                currentZoom = ZoomUnit + (L - LevelUnit) * (t - st)
           /\ (st + transitionDuration <= t /\ t <= en - transitionDuration) =>
                currentZoom = L * transitionDuration
           /\ (en - transitionDuration <= t /\ t <= en) =>
                currentZoom = L * transitionDuration
                                - (L - LevelUnit) * (t - (en - transitionDuration))
           /\ (t = st \/ t = en) => currentZoom = ZoomUnit
           /\ (t = st + transitionDuration \/ t = en - transitionDuration) =>
                currentZoom = L * transitionDuration
           /\ (en - transitionDuration <= t /\ t <= en) =>
                currentZoom = zoomAt(cfg, st + (en - t))

C8_Witness ==
    /\ zoomSampled
    /\ zoomConfig[1].endTime - zoomConfig[1].startTime = 14
    /\ videoTime = zoomConfig[1].endTime - 2
    /\ currentZoom > ZoomUnit
    /\ currentZoom < zoomConfig[1].zoomLevel * transitionDuration

\* C9: the ramp-in window is the first min(0.3, width/2) seconds: within the
\* first half of the region the magnification is
\* 1.0 + (L-1) * min(1, (t-start) / min(0.3, width/2)), so a region narrower
\* than 0.6 s reaches the target at its middle; and it is 1.0 at the end.
\* (Both sides are multiplied by twice the ramp window to stay in integers.)
C9_RampInHalfWidth ==
    zoomSampled =>
        LET cfg    == zoomConfig[1]
            st     == cfg.startTime
            width  == cfg.endTime - cfg.startTime
            L      == cfg.zoomLevel
            t      == videoTime
            twice  == Min(2 * transitionDuration, width)
        IN /\ (st <= t /\ 2 * (t - st) <= width) =>
                currentZoom * twice =
                    ZoomUnit * twice
                      + (L - LevelUnit) * transitionDuration
                          * Min(2 * (t - st), twice)
           /\ t = cfg.endTime => currentZoom = ZoomUnit

\* C30: for an enabled region with a level of 1.0 or more, whatever its
\* width, the magnification updateZoom computes at any playback time lies
\* between 1.0 and the level; and while the region is absent, deleted or
\* disabled the magnification is 1.0, set by the zoom effect itself without
\* a playback event.
C30_MagnificationInRange ==
    /\ zoomSampled =>
          /\ ZoomUnit <= currentZoom
          /\ currentZoom <= zoomConfig[1].zoomLevel * transitionDuration
    /\ ~zoomEnabled(zoomConfig) => currentZoom = ZoomUnit

\* a region 0.5 s wide sampled 0.4 s after its start, in the ramp-out branch
\* that begins before the ramp-in has ended
C30_Witness ==
    /\ zoomSampled
    /\ zoomConfig[1].endTime - zoomConfig[1].startTime = 10
    /\ videoTime = zoomConfig[1].startTime + 8
    /\ currentZoom > ZoomUnit
    /\ currentZoom < zoomConfig[1].zoomLevel * transitionDuration

(***************************************************************************)
(* Specification SpecRegion: the user adds, drags, resizes, configures and *)
(* deletes the zoom region on the timeline.                                *)
(***************************************************************************)
\* pointer and playhead positions lie on a grid of this many ticks
GridTicks == 5

\* durations the video reports: 1 s and 3.5 s
RegionDurations == { 20, 70 }

\* positions used while no metadata is loaded (the timeline then spans 15 s
\* and the video, not yet playable, stands at 0)
EarlyPositions == { 0 }

OnGrid(lo, hi) == { t \in lo..hi : t % GridTicks = 0 }

\* the currentTime prop at the click: any position from 0 to the duration
PlayheadInputs ==
    IF duration = 0 THEN EarlyPositions
    ELSE OnGrid(0, timelineDuration(duration))

\* pointer displacement, scaled to time
DragInputs ==
    IF duration = 0 THEN { -t : t \in EarlyPositions } \cup EarlyPositions
    ELSE OnGrid(-timelineDuration(duration), timelineDuration(duration))

RegionLevels == { 250 }
RegionCenters == { <<0, 100>> }

RegionFrame ==
    UNCHANGED <<groupVars, mockVars, pageVars, audioVars, captureVars, videoTime,
                zoomOrigin, lastEvent>>

\* the zoom effect of the preview, re-run for a new zoomConfig
zoomAfterChange(zc) == IF zoomEnabled(zc) THEN currentZoom ELSE ZoomUnit

\* loadedmetadata: setDuration(video.duration)
LoadedMetadata ==
    /\ duration = 0
    /\ dragMode = "none"
    /\ \E d \in RegionDurations : duration' = d
    /\ UNCHANGED <<zoomConfig, currentZoom, dragMode, dragStartTime>>
    /\ RegionFrame

\* the Add Zoom button, shown while there is no enabled zoom
AddZoom ==
    /\ ~zoomEnabled(zoomConfig)
    /\ \E time \in PlayheadInputs :
         zoomConfig' = <<addedZoom(time, duration)>>
    /\ currentZoom' = zoomAfterChange(zoomConfig')
    /\ UNCHANGED <<duration, dragMode, dragStartTime>>
    /\ RegionFrame

\* handleMouseDown on the block or on one of its handles
MouseDown ==
    /\ zoomEnabled(zoomConfig)
    /\ dragMode = "none"
    /\ \E type \in { "drag", "left", "right" } :
         /\ dragMode' = type
         /\ dragStartTime' = dragAnchor(zoomConfig[1], type)
    /\ UNCHANGED <<zoomConfig, duration, currentZoom>>
    /\ RegionFrame

\* handleMouseMove while a drag mode is set
MouseMove ==
    /\ zoomEnabled(zoomConfig)
    /\ dragMode # "none"
    /\ \E deltaTime \in DragInputs :
         LET zoom == zoomConfig[1]
             safe == safeDuration(duration)
         IN zoomConfig' =
              IF dragMode = "drag"
              THEN <<movedZoom(zoom, dragStartTime, deltaTime, safe)>>
              ELSE IF dragMode = "left"
              THEN <<resizedLeft(zoom, dragStartTime, deltaTime, safe)>>
              ELSE <<resizedRight(zoom, dragStartTime, deltaTime, safe)>>
    /\ currentZoom' = zoomAfterChange(zoomConfig')
    /\ UNCHANGED <<duration, dragMode, dragStartTime>>
    /\ RegionFrame

\* handleMouseUp (dragStartTime.current keeps its value in the code; it is
\* written again by the next handleMouseDown before it is read, so the stale
\* value is not kept here)
MouseUp ==
    /\ dragMode # "none"
    /\ dragMode' = "none"
    /\ dragStartTime' = 0
    /\ UNCHANGED <<zoomConfig, duration, currentZoom>>
    /\ RegionFrame

\* the settings popover: zoom level
SetZoomLevel ==
    /\ zoomEnabled(zoomConfig)
    /\ dragMode = "none"
    /\ \E level \in RegionLevels :
         zoomConfig' = <<[zoomConfig[1] EXCEPT !.zoomLevel = level]>>
    /\ currentZoom' = zoomAfterChange(zoomConfig')
    /\ UNCHANGED <<duration, dragMode, dragStartTime>>
    /\ RegionFrame

\* the settings popover: zoom position
SetZoomCenter ==
    /\ zoomEnabled(zoomConfig)
    /\ dragMode = "none"
    /\ \E c \in RegionCenters :
         zoomConfig' = <<[zoomConfig[1] EXCEPT !.center = c]>>
    /\ currentZoom' = zoomAfterChange(zoomConfig')
    /\ UNCHANGED <<duration, dragMode, dragStartTime>>
    /\ RegionFrame

\* the delete button: onZoomChange(null); the block unmounts
DeleteZoom ==
    /\ zoomEnabled(zoomConfig)
    /\ dragMode = "none"
    /\ zoomConfig' = <<>>
    /\ currentZoom' = zoomAfterChange(zoomConfig')
    /\ dragStartTime' = 0
    /\ UNCHANGED <<duration, dragMode>>
    /\ RegionFrame

InitRegion == GroupIdle /\ MockIdle /\ ZoomIdle /\ PageIdle /\ AudioIdle
      /\ CaptureIdle /\ lastEvent = "none"

NextRegion ==
    \/ LoadedMetadata
    \/ AddZoom
    \/ MouseDown
    \/ MouseMove
    \/ MouseUp
    \/ SetZoomLevel
    \/ SetZoomCenter
    \/ DeleteZoom

SpecRegion == InitRegion /\ [][NextRegion]_vars

(***************************************************************************)
(* Claims about the zoom block                                             *)
(***************************************************************************)
\* C10: no effect region ever has endTime - startTime < 0.5 s, whatever
\* sequence of Add Zoom, move, resize and settings changes produced it.
C10_MinimumWidth ==
    zoomConfig # <<>> =>
        zoomConfig[1].endTime - zoomConfig[1].startTime >= minZoomWidth

\* C11: every effect region satisfies 0 <= startTime < endTime <= duration,
\* whatever sequence of Add Zoom, move and resize operations produced it
\* (stated for the states in which the video's duration is known).
C11_RegionWithinDuration ==
    (zoomConfig # <<>> /\ duration > 0) =>
        /\ 0 <= zoomConfig[1].startTime
        /\ zoomConfig[1].startTime < zoomConfig[1].endTime
        /\ zoomConfig[1].endTime <= duration

\* the fields no drag owns
regionSettings(zoom) == <<zoom.enabled, zoom.zoomLevel, zoom.center>>

\* C12: each drag mode changes only what it owns: while a move drag is on,
\* startTime and endTime shift by the same amount (the width is unchanged);
\* while a resize-left drag is on, endTime is unchanged; while a resize-right
\* drag is on, startTime is unchanged; no drag changes enabled, zoomLevel or
\* the center.
C12_DragOwnsItsFields ==
    [][(dragMode # "none" /\ zoomConfig # <<>> /\ zoomConfig' # <<>>) =>
         LET old == zoomConfig[1]
             new == zoomConfig'[1]
         IN /\ regionSettings(new) = regionSettings(old)
            /\ dragMode = "drag" =>
                 new.endTime - new.startTime = old.endTime - old.startTime
            /\ dragMode = "left" => new.endTime = old.endTime
            /\ dragMode = "right" => new.startTime = old.startTime]_vars

\* a 3 s region moved by a drag from 0 to 0.5 s, unchanged in width
C12_Witness ==
    /\ dragMode = "drag"
    /\ dragStartTime = 0
    /\ zoomConfig # <<>>
    /\ zoomConfig[1].startTime = 10
    /\ zoomConfig[1].endTime = 10 + addZoomLength


(***************************************************************************)
(* Specification SpecPage: an editing session of the editor page.          *)
(***************************************************************************)
\* screenshot loops followed at the same time
MaxCaptures == 2

\* durations the video reports: 5 s and 6 s
PageDurations == { 5 * TicksPerSecond, 6 * TicksPerSecond }

PageToken(text, start, end) ==
    [word |-> text, start |-> start, end |-> end, is_cleaned_segment |-> FALSE]

\* transcripts the service returns: "a b", pause, "c"; and a single "c"
PageWordLists ==
    { << PageToken(<<"a">>, 0, 8), PageToken(<<"b">>, 9, 18),
         PageToken(<<"c">>, 30, 38) >>,
      << PageToken(<<"c">>, 4, 12) >> }

\* what the user types into a phrase and into a step title
EditTexts == { <<"x">> }
EditTitles == { <<"Edited">> }

PageFrame ==
    UNCHANGED <<groupVars, mockVars, audioVars, captureVars, zoomConfig, videoTime,
                currentZoom, zoomOrigin, dragMode, dragStartTime>>

\* the state after a handler set duration to d, the phrases to ps and the
\* steps to ss, and the effects ran
Commit(d, ps, ss, genDeps, createDeps) ==
    LET after == afterEffects(d, ps, ss, stepsCreatedFromTranscriptRef,
                              capturingStepIds, captures, videoMounted,
                              genDeps, createDeps)
    IN /\ Len(after.captures) <= MaxCaptures
       /\ duration' = d
       /\ transcriptPhrases' = ps
       /\ steps' = after.steps
       /\ stepsCreatedFromTranscriptRef' = after.ref
       /\ capturingStepIds' = after.ids
       /\ captures' = after.captures

\* loadedmetadata on the video: setDuration(video.duration)
PageLoadedMetadata ==
    /\ videoMounted
    /\ videoListening
    /\ \E d \in PageDurations :
         /\ d # duration
         /\ Commit(d, transcriptPhrases, steps, TRUE, TRUE)
    /\ lastEvent' = "loadedmetadata"
    /\ UNCHANGED <<transcriptFetch, videoMounted, videoListening>>
    /\ UNCHANGED editorVars
    /\ PageFrame

\* loadTranscript: the answer to the transcript request of the page load
TranscriptLoaded ==
    /\ transcriptFetch = "pending"
    /\ transcriptFetch' = "done"
    /\ \E ws \in PageWordLists \cup { <<>> } :
         IF ws = <<>>
         THEN UNCHANGED <<duration, transcriptPhrases, steps,
                          stepsCreatedFromTranscriptRef, capturingStepIds,
                          captures>>
         ELSE LET ps == groupWordsIntoPhrases(ws, pauseThreshold)
              IN Commit(duration, ps, steps,
                        Len(ps) # Len(transcriptPhrases), TRUE)
    /\ lastEvent' = "loadTranscript"
    /\ UNCHANGED <<videoMounted, videoListening>>
    /\ UNCHANGED editorVars
    /\ PageFrame

\* handleRetranscribe: the answer to a re-transcription request
Retranscribed ==
    /\ \E ws \in PageWordLists :
         LET ps == groupWordsIntoPhrases(ws, pauseThreshold)
         IN Commit(duration, ps, steps, Len(ps) # Len(transcriptPhrases), TRUE)
    /\ lastEvent' = "retranscribe"
    /\ UNCHANGED <<transcriptFetch, videoMounted, videoListening>>
    /\ UNCHANGED editorVars
    /\ PageFrame

\* onTranscriptPhrasesChange, as handleEditSave of the transcript editor
\* (shown on the video tab) calls it: one phrase text replaced
PhraseEditSave ==
    /\ videoMounted
    /\ \E k \in 1..Len(transcriptPhrases), text \in EditTexts :
         /\ transcriptPhrases[k].text # text
         /\ Commit(duration,
                   withPhraseText(transcriptPhrases, transcriptPhrases[k].id, text),
                   steps, FALSE, TRUE)
    /\ lastEvent' = "phraseEdit"
    /\ UNCHANGED <<transcriptFetch, videoMounted, videoListening>>
    /\ UNCHANGED editorVars
    /\ PageFrame

\* handleStepUpdate, from the step editor of the document tab
StepUpdate ==
    /\ ~videoMounted
    /\ \E k \in 1..Len(steps), title \in EditTitles :
         /\ steps[k].title # title
         /\ Commit(duration, transcriptPhrases,
                   withTitle(steps, steps[k].id, title), FALSE, FALSE)
    /\ lastEvent' = "stepUpdate"
    /\ UNCHANGED <<transcriptFetch, videoMounted, videoListening>>
    /\ UNCHANGED editorVars
    /\ PageFrame

\* handleStepDelete, from the step editor of the document tab
StepDelete ==
    /\ ~videoMounted
    /\ \E k \in 1..Len(steps) :
         Commit(duration, transcriptPhrases, withoutStep(steps, steps[k].id),
                TRUE, FALSE)
    /\ lastEvent' = "stepDelete"
    /\ UNCHANGED <<transcriptFetch, videoMounted, videoListening>>
    /\ UNCHANGED editorVars
    /\ PageFrame

\* the end of one iteration of screenshot loop c: the screenshot is set or
\* the catch block logs, the finally block drops the id, and the loop goes
\* on to its next step or ends
SettleLoop(c, ok) ==
    LET item == captures[c].queue[1]
        rest == Tail(captures[c].queue)
        ids1 == withoutId(capturingStepIds, item[1])
    IN /\ steps' = IF ok
                   THEN withScreenshot(steps, item[1], <<"frame", item[2]>>)
                   ELSE afterFailedCapture(steps, item[1])
       /\ capturingStepIds' = IF rest = <<>> THEN ids1
                              ELSE Append(ids1, rest[1][1])
       /\ captures' = IF rest = <<>>
                      THEN SubSeq(captures, 1, c - 1)
                             \o SubSeq(captures, c + 1, Len(captures))
                      ELSE [captures EXCEPT
                              ![c] = newLoop(captures[c].kind, rest)]

\* the awaited capture of screenshot loop c settles, taken as one step
CaptureSettledAt(c) ==
    /\ c <= Len(captures)
    /\ \E ok \in BOOLEAN :
         /\ SettleLoop(c, ok)
         /\ lastEvent' = IF ok THEN "captureSettled" ELSE "captureFailed"
    /\ UNCHANGED <<duration, transcriptPhrases, stepsCreatedFromTranscriptRef,
                   transcriptFetch, videoMounted, videoListening>>
    /\ UNCHANGED editorVars
    /\ PageFrame

CaptureSettled == \E c \in 1..MaxCaptures : CaptureSettledAt(c)

\* handleStepRecapture, from the step editor of the document tab: without a
\* mounted video it returns at once
StepRecapture ==
    /\ ~videoMounted
    /\ \E k \in 1..Len(steps) :
         IF videoMounted
         THEN /\ Len(captures) < MaxCaptures
              /\ capturingStepIds' = Append(capturingStepIds, steps[k].id)
              /\ captures' = Append(captures,
                     newLoop("recapture",
                             << <<steps[k].id, steps[k].startTime>> >>))
         ELSE UNCHANGED <<capturingStepIds, captures>>
    /\ lastEvent' = "stepRecapture"
    /\ UNCHANGED <<duration, transcriptPhrases, steps,
                   stepsCreatedFromTranscriptRef, transcriptFetch, videoMounted,
                   videoListening>>
    /\ UNCHANGED editorVars
    /\ PageFrame

\* handleAddStep, from the document tab: without a mounted video it returns
\* at once, before the step is added
AddStep ==
    /\ ~videoMounted
    /\ IF videoMounted
       THEN /\ Len(captures) < MaxCaptures
            /\ Commit(duration, transcriptPhrases,
                      Append(steps, newStep(Len(steps), currentTime, duration)),
                      TRUE, FALSE)
       ELSE UNCHANGED <<duration, transcriptPhrases, steps,
                        stepsCreatedFromTranscriptRef, capturingStepIds, captures>>
    /\ lastEvent' = "addStep"
    /\ UNCHANGED <<transcriptFetch, videoMounted, videoListening>>
    /\ UNCHANGED editorVars
    /\ PageFrame

\* onTabChange: the video preview and the transcript editor are rendered on
\* the video tab only; the page's listeners were put on the element of the
\* first mount, and the editor's state starts afresh on each mount
TabSwitch ==
    /\ videoMounted' = ~videoMounted
    /\ videoListening' = FALSE
    /\ lastEvent' = "tabSwitch"
    /\ UNCHANGED <<duration, transcriptPhrases, steps,
                   stepsCreatedFromTranscriptRef, capturingStepIds, captures,
                   transcriptFetch>>
    /\ editingId' = <<>>
    /\ editText' = <<>>
    /\ liveSaves' = 0
    /\ latestSave' = "none"
    /\ isSaving' = FALSE
    /\ hasUnsavedChanges' = FALSE
    /\ UNCHANGED savesInFlight
    /\ PageFrame

\* handleProcessVideo: the answer carries a processed video; setVideoUrl
\* re-runs the listener effect, which attaches to the element now mounted
VideoProcessed ==
    /\ videoListening' = videoMounted
    /\ lastEvent' = "processVideo"
    /\ UNCHANGED <<duration, transcriptPhrases, steps,
                   stepsCreatedFromTranscriptRef, capturingStepIds, captures,
                   transcriptFetch, videoMounted>>
    /\ UNCHANGED editorVars
    /\ PageFrame

InitPage == GroupIdle /\ MockIdle /\ ZoomIdle /\ PageIdle /\ AudioIdle
      /\ CaptureIdle /\ lastEvent = "none"

NextPage ==
    \/ PageLoadedMetadata
    \/ TranscriptLoaded
    \/ Retranscribed
    \/ PhraseEditSave
    \/ StepUpdate
    \/ StepDelete
    \/ CaptureSettled
    \/ StepRecapture
    \/ AddStep
    \/ TabSwitch
    \/ VideoProcessed

SpecPage == InitPage /\ [][NextPage]_vars

(***************************************************************************)
(* Claims about the editor page                                            *)
(***************************************************************************)
\* the steps without their screenshots
stepsCore(ss) ==
    [k \in 1..Len(ss) |->
       <<ss[k].id, ss[k].startTime, ss[k].endTime, ss[k].title, ss[k].transcript>>]

\* the events of C1 that follow the build without being step edits: duration
\* updates, phrase-list changes, re-renders and settling captures
BuildTriggers ==
    { "loadedmetadata", "loadTranscript", "retranscribe", "phraseEdit",
      "tabSwitch", "processVideo", "captureSettled", "captureFailed" }

\* C1: the from-phrases build runs at most once per session: once it has run
\* the latch stays set, and no later duration update, phrase-list change
\* (phrase edit, re-transcription), re-render or capture adds, duplicates or
\* resets steps, so a title edited after the build is still there.
C1_OneShotBuild ==
    [][stepsCreatedFromTranscriptRef =>
         /\ stepsCreatedFromTranscriptRef'
         /\ lastEvent' \in BuildTriggers => stepsCore(steps') = stepsCore(steps)]_vars

C1_Witness ==
    /\ stepsCreatedFromTranscriptRef
    /\ lastEvent = "retranscribe"
    /\ Len(steps) = 2
    /\ steps[1].title = <<"Edited">>
    /\ Len(transcriptPhrases) = 1

\* C19: a capture that fails, in the batch after a build or for a step the
\* user recaptures or inserts, leaves the step list as it was: no step is
\* removed, reordered or changed.
C19_FailedCaptureKeepsSteps ==
    [][lastEvent' = "captureFailed" => steps' = steps]_vars

\* a capture failed for a step that is listed, while another loop still runs
C19_Witness ==
    /\ lastEvent = "captureFailed"
    /\ steps # <<>>
    /\ \A k \in 1..Len(steps) : steps[k].screenshot = <<>>
    /\ captures # <<>>

\* C21: the from-phrases build creates one step per phrase in the order of
\* the phrases: step k is titled "Step k", carries the text, start and end
\* of phrase k and no screenshot; the list is set whole before the first
\* capture of the build's loop has settled.
C21_OneStepPerPhrase ==
    [][(stepsCreatedFromTranscriptRef' /\ ~stepsCreatedFromTranscriptRef) =>
         /\ Len(steps') = Len(transcriptPhrases')
         /\ \A k \in 1..Len(steps') :
              /\ steps'[k].title = <<"Step", k>>
              /\ steps'[k].transcript = transcriptPhrases'[k].text
              /\ steps'[k].startTime = transcriptPhrases'[k].start
              /\ steps'[k].endTime = transcriptPhrases'[k].end
              /\ steps'[k].screenshot = <<>>
         /\ captures' # <<>>
         /\ Len(captures'[Len(captures')].queue) = Len(steps')]_vars

\* the build has run for a transcript of two phrases and its loop is at the
\* first step
C21_Witness ==
    /\ stepsCreatedFromTranscriptRef
    /\ lastEvent = "loadTranscript"
    /\ Len(transcriptPhrases) = 2
    /\ Len(steps) = 2
    /\ steps[2].title = <<"Step", 2>>
    /\ captures # <<>>
    /\ Len(captures[Len(captures)].queue) = 2

stepIds(ss) == { ss[k].id : k \in 1..Len(ss) }

\* C25: deleting a step removes the step with that id and leaves every other
\* step as it was, and no automatic action brings a deleted step back: a
\* capture that settles adds no step, and a list the user has emptied (the
\* duration is known and there are no phrases, so the fallback build has
\* run before) is not filled again with the fallback steps.
C25_DeletedStepStaysDeleted ==
    [][/\ lastEvent' = "stepDelete" =>
           \E k \in 1..Len(steps) :
             /\ steps[k].id \notin stepIds(steps')
             /\ steps' = SubSeq(steps, 1, k - 1) \o SubSeq(steps, k + 1, Len(steps))
       /\ lastEvent' \in { "captureSettled", "captureFailed" } =>
           stepIds(steps') = stepIds(steps)
       /\ (duration # 0 /\ steps = <<>> /\ transcriptPhrases' = <<>>) =>
           steps' = <<>>]_vars

\* a step whose title the user has typed
userEdited(st) == st.title \in EditTitles

\* C26: automatic step generation never discards user work: a step the
\* user has edited, a fallback step included, is still in the list with its
\* edit after every event that is not the user's own edit or deletion of
\* a step.
C26_UserWorkKept ==
    [][lastEvent' \in BuildTriggers =>
         \A k \in 1..Len(steps) :
           userEdited(steps[k]) =>
             \E j \in 1..Len(steps') :
               /\ steps'[j].id = steps[k].id
               /\ steps'[j].title = steps[k].title]_vars

\* The handlers that start screenshot loops, end them, or change the page
\* under them: metadata and transcript arrival (the two builds), tab switch
\* and processed video (the listeners), step deletion, capture settlement.
NextFill ==
    \/ PageLoadedMetadata
    \/ TranscriptLoaded
    \/ StepDelete
    \/ TabSwitch
    \/ VideoProcessed
    \/ CaptureSettled

\* The awaited capture of every loop settles: captureFrameFromUrl and
\* captureVideoFrame reject from a timer when neither the load, the seek nor
\* an error event arrives.
SpecFill ==
    /\ InitPage
    /\ [][NextFill]_vars
    /\ \A c \in 1..MaxCaptures : WF_vars(CaptureSettledAt(c))

\* the ids a step can have
CaptureIds ==
    UNION { { fallbackSteps(d)[k].id : k \in 1..Len(fallbackSteps(d)) } :
            d \in PageDurations }
      \cup UNION { { groupWordsIntoPhrases(ws, pauseThreshold)[k].id :
                     k \in 1..Len(groupWordsIntoPhrases(ws, pauseThreshold)) } :
                   ws \in PageWordLists }

isCapturing(id) == \E k \in 1..Len(capturingStepIds) : capturingStepIds[k] = id

\* C18: every capture that was started settles, and the id of its step leaves
\* the capturing set whatever the outcome; a capturing set that is not empty
\* becomes empty.
C18_CapturesSettle ==
    /\ \A id \in CaptureIds : isCapturing(id) ~> ~isCapturing(id)
    /\ (capturingStepIds # <<>>) ~> (capturingStepIds = <<>>)

\* a loop has ended with a failed capture and nothing is capturing any more
C18_Witness ==
    /\ lastEvent = "captureFailed"
    /\ capturingStepIds = <<>>
    /\ captures = <<>>
    /\ steps # <<>>

\* C28: a step is marked as capturing whenever a capture for it is in
\* flight: the id of the step every running screenshot loop is capturing is
\* in capturingStepIds, also when two captures of the same step overlap and
\* one of them has settled.
C28_MarkedWhileCapturing ==
    \A c \in 1..Len(captures) : isCapturing(captures[c].queue[1][1])

(***************************************************************************)
(* Specification SpecAudio: playback of the video with a voiceover; the    *)
(* video's events are queued and dispatched to the listeners in order.     *)
(***************************************************************************)
\* events that may wait for dispatch at the same time
MaxPending == 2

\* playback positions lie between 0 and this many ticks
MaxPlayTime == 14

\* the video (or the audio) plays on by 0.2 s between two observations
AdvanceTicks == 4

\* positions the user seeks to with the native controls
SeekTargets == { 0, 10 }

AudioFrame ==
    UNCHANGED <<groupVars, mockVars, pageVars, captureVars, zoomConfig, duration,
                currentZoom, zoomOrigin, dragMode, dragStartTime>>

\* an action of the user or of the media elements, not of a listener
External(name) ==
    /\ lastEvent' = name
    /\ audioStartIssued' = FALSE
    /\ videoSeekIssued' = FALSE
    /\ UNCHANGED seekEffect

\* handleGenerateVoiceover succeeded: a (new) voiceoverUrl reaches the preview,
\* the audio element loads it, both effects re-run
VoiceoverGenerated ==
    /\ Len(pending) < MaxPending
    /\ voiceoverUrl' = TRUE
    /\ videoMuted' = renderedMuted(mutedProp(voiceoverUrl, isMuted),
                                   mutedProp(TRUE, isMuted), videoMuted)
    /\ pending' = pending \o volumeEvents(videoMuted, videoMuted')
    /\ audioTime' = 0
    /\ audioPaused' = TRUE
    /\ External("voiceover")
    /\ UNCHANGED <<isMuted, currentTime, videoPaused, videoTime>>
    /\ AudioFrame

\* onMuteToggle: setIsMuted(!isMuted)
MuteToggle ==
    /\ Len(pending) < MaxPending
    /\ isMuted' = ~isMuted
    /\ videoMuted' = renderedMuted(mutedProp(voiceoverUrl, isMuted),
                                   mutedProp(voiceoverUrl, isMuted'), videoMuted)
    /\ pending' = pending \o volumeEvents(videoMuted, videoMuted')
    /\ External("muteToggle")
    /\ UNCHANGED <<voiceoverUrl, currentTime, videoPaused, videoTime, audioTime,
                   audioPaused>>
    /\ AudioFrame

\* the mute button of the native controls
NativeMuteToggle ==
    /\ Len(pending) < MaxPending
    /\ videoMuted' = ~videoMuted
    /\ pending' = pending \o volumeEvents(videoMuted, videoMuted')
    /\ External("nativeMute")
    /\ UNCHANGED <<voiceoverUrl, isMuted, currentTime, videoPaused, videoTime,
                   audioTime, audioPaused>>
    /\ AudioFrame

\* video.play(), from handlePlayPause or the native controls
VideoPlay ==
    /\ videoPaused
    /\ Len(pending) < MaxPending
    /\ videoPaused' = FALSE
    /\ pending' = Append(pending, "play")
    /\ External("userPlay")
    /\ UNCHANGED <<voiceoverUrl, isMuted, currentTime, videoMuted, videoTime,
                   audioTime, audioPaused>>
    /\ AudioFrame

\* video.pause()
VideoPause ==
    /\ ~videoPaused
    /\ Len(pending) < MaxPending
    /\ videoPaused' = TRUE
    /\ pending' = Append(pending, "pause")
    /\ External("userPause")
    /\ UNCHANGED <<voiceoverUrl, isMuted, currentTime, videoMuted, videoTime,
                   audioTime, audioPaused>>
    /\ AudioFrame

\* a seek with the scrubber of the native controls
NativeSeek ==
    /\ pending = <<>>
    /\ \E t \in SeekTargets :
         /\ t # videoTime
         /\ videoTime' = t
    /\ pending' = <<"timeupdate", "seeked">>
    /\ External("userSeek")
    /\ UNCHANGED <<voiceoverUrl, isMuted, currentTime, videoMuted, videoPaused,
                   audioTime, audioPaused>>
    /\ AudioFrame

\* the video plays on
PlaybackAdvance ==
    /\ ~videoPaused
    /\ Len(pending) < MaxPending
    /\ videoTime + AdvanceTicks <= MaxPlayTime
    /\ videoTime' = videoTime + AdvanceTicks
    /\ pending' = Append(pending, "timeupdate")
    /\ External("playback")
    /\ UNCHANGED <<voiceoverUrl, isMuted, currentTime, videoMuted, videoPaused,
                   audioTime, audioPaused>>
    /\ AudioFrame

\* the voiceover plays on
AudioAdvance ==
    /\ voiceoverUrl
    /\ ~audioPaused
    /\ audioTime + AdvanceTicks <= MaxPlayTime
    /\ audioTime' = audioTime + AdvanceTicks
    /\ External("audioPlayback")
    /\ UNCHANGED <<voiceoverUrl, isMuted, currentTime, videoMuted, videoPaused,
                   videoTime, audioPaused, pending>>
    /\ AudioFrame

\* the oldest queued event is dispatched: the preview's listeners (with a
\* voiceover) and the page's listeners run; audio.play() may be rejected
Dispatch ==
    /\ pending # <<>>
    /\ LET event == Head(pending)
           req   == IF voiceoverUrl
                    THEN audioListener(event, videoPaused, videoTime,
                                       audioPaused, audioTime)
                    ELSE AudioRequest(audioTime, FALSE, FALSE)
           muted == IF voiceoverUrl /\ event = "volumechange"
                    THEN forceMute(videoMuted) ELSE videoMuted
           shown == IF event = "timeupdate" THEN videoTime ELSE currentTime
           wrote == seekEffect /\ shown # currentTime
       IN /\ audioTime' = req.time
          /\ audioPaused' \in IF req.play THEN { FALSE, audioPaused }
                              ELSE IF req.pause THEN { TRUE }
                              ELSE { audioPaused }
          /\ audioStartIssued' = req.play
          /\ videoMuted' = muted
          /\ currentTime' = shown
          /\ videoSeekIssued' = wrote
          /\ pending' = Tail(pending) \o volumeEvents(videoMuted, muted)
                          \o (IF wrote THEN <<"timeupdate", "seeked">> ELSE <<>>)
          /\ Len(pending') <= MaxPending
          /\ lastEvent' = event
    /\ UNCHANGED <<voiceoverUrl, isMuted, seekEffect, videoPaused, videoTime>>
    /\ AudioFrame

InitAudio ==
    /\ GroupIdle /\ MockIdle /\ ZoomIdle /\ PageIdle /\ PreviewIdle /\ CaptureIdle
    /\ seekEffect \in BOOLEAN
    /\ lastEvent = "none"

NextAudio ==
    \/ VoiceoverGenerated
    \/ MuteToggle
    \/ NativeMuteToggle
    \/ VideoPlay
    \/ VideoPause
    \/ NativeSeek
    \/ PlaybackAdvance
    \/ AudioAdvance
    \/ Dispatch

SpecAudio == InitAudio /\ [][NextAudio]_vars

(***************************************************************************)
(* Claims about the voiceover controller                                   *)
(***************************************************************************)
\* the events the preview's and the page's listeners handle
ListenerEvents == { "timeupdate", "play", "pause", "seeked", "volumechange" }

\* C13: on a timeupdate during continuous playback with the audio already
\* playing, the audio position is set to the video position if and only if
\* the drift is more than 0.5 s; at 0.5 s or less it is left untouched.
C13_SnapOnlyBeyondTolerance ==
    [][(lastEvent' = "timeupdate" /\ voiceoverUrl /\ ~videoPaused /\ ~audioPaused) =>
         audioTime' = IF \/ videoTime - audioTime > driftTolerance
                         \/ audioTime - videoTime > driftTolerance
                      THEN videoTime
                      ELSE audioTime]_vars

\* a timeupdate handled at a drift of exactly 0.5 s left the audio where it was
C13_Witness ==
    /\ lastEvent = "timeupdate"
    /\ voiceoverUrl
    /\ ~videoPaused
    /\ ~audioPaused
    /\ videoTime - audioTime = driftTolerance

\* C14: with a voiceover attached, after a video play event the audio
\* position equals the video position and audio playback has been started;
\* after a pause event the audio is paused; after a seeked event the audio
\* position equals the video position, playing or not.
C14_AudioFollowsVideoEvents ==
    voiceoverUrl =>
        /\ lastEvent = "play" => (audioTime = videoTime /\ audioStartIssued)
        /\ lastEvent = "pause" => audioPaused
        /\ lastEvent = "seeked" => audioTime = videoTime

\* a seek of the paused video to 0.5 s took the paused audio along
C14_Witness ==
    /\ voiceoverUrl
    /\ lastEvent = "seeked"
    /\ videoPaused
    /\ audioPaused
    /\ videoTime = 10
    /\ audioTime = 10

\* C15: while a voiceover is attached, the video is muted in every state
\* reached after the controller's listeners have run (no event is waiting
\* for them): an external unmute never outlives the listeners.
C15_MutedWhileVoiceover ==
    (voiceoverUrl /\ lastEvent \in ListenerEvents /\ pending = <<>>) => videoMuted

\* C16: no listener of the video's timeupdate, play, pause or seeked events
\* writes video.currentTime, so a timeupdate cannot cause a seek that causes
\* another timeupdate.
C16_ListenersNeverSeekVideo == ~videoSeekIssued

\* C29: the voiceover is started by a play event of the video or by a
\* timeupdate handled while the video is not paused, and by nothing else:
\* once a pause event has been handled the audio is paused, and it stays
\* paused with no audio start issued until one of those two; a seeked or a
\* timeupdate event handled while the video is paused never starts it.
C29_AudioStartsOnlyWithVideo ==
    [][ /\ lastEvent' = "pause" => (audioPaused' /\ ~audioStartIssued')
        /\ ((audioPaused /\ ~audioPaused') \/ audioStartIssued') =>
              \/ lastEvent' = "play"
              \/ lastEvent' = "timeupdate" /\ ~videoPaused
        /\ (lastEvent' \in { "seeked", "timeupdate" } /\ videoPaused) =>
              /\ ~audioStartIssued'
              /\ audioPaused' = audioPaused ]_vars

\* the voiceover had played for 0.2 s when the video was paused; a seek of
\* the paused video to 0.5 s then brought a timeupdate, which left the audio
\* paused where it was
C29_Witness ==
    /\ voiceoverUrl
    /\ lastEvent = "timeupdate"
    /\ videoPaused
    /\ audioPaused
    /\ ~audioStartIssued
    /\ videoTime = 10
    /\ audioTime = AdvanceTicks

(***************************************************************************)
(* Specification SpecCapture: calls of captureVideoFrame on the live       *)
(* video, one at a time, followed through every exit path.                 *)
(***************************************************************************)
CaptureCopies == { "timed", "untimed" }

\* timestamps asked for: 0 s, 0.5 s, 5 s, a negative one and NaN
CaptureTimestamps == { Num(0), Num(10), Num(100), Num(-20), NaN }

\* positions the user leaves the video at before a capture
CapturePositions == { 0, 5, 15 }

CaptureFrame ==
    UNCHANGED <<groupVars, mockVars, pageVars, audioVars, zoomConfig, currentZoom,
                zoomOrigin, dragMode, dragStartTime, lastEvent>>

\* the user seeks while no capture runs
SeekBeforeCapture ==
    /\ capPc = "idle"
    /\ duration > 0
    /\ \E t \in CapturePositions :
         /\ t # videoTime
         /\ videoTime' = t
    /\ UNCHANGED <<duration, captureVars>>
    /\ CaptureFrame

\* the body of the promise: validation, canvas, originalTime, listeners and
\* the seek; getContext may return null
startCapture(copy, ts) ==
    \E context \in BOOLEAN :
      IF rejectsTimestamp(copy, ts)
      THEN /\ capPc' = "rejected"
           /\ capExit' = "invalid"
           /\ UNCHANGED <<videoTime, capOriginalTime>>
      ELSE IF ~context
      THEN /\ capPc' = "rejected"
           /\ capExit' = "noContext"
           /\ UNCHANGED <<videoTime, capOriginalTime>>
      ELSE /\ capOriginalTime' = videoTime
           /\ videoTime' = seekPosition(captureTarget(copy, ts, duration), duration)
           /\ capPc' = "seeking"
           /\ capExit' = "none"

\* captureVideoFrame(video, timestamp) is called
CallCapture ==
    /\ capPc = "idle"
    /\ \E copy \in CaptureCopies, ts \in CaptureTimestamps :
         /\ capCopy' = copy
         /\ capTimestamp' = ts
         /\ capStartTime' = videoTime
         /\ IF duration > 0
            THEN startCapture(copy, ts)
            ELSE /\ capPc' = IF copy = "timed" THEN "loading" ELSE "rejected"
                 /\ capExit' = IF copy = "timed" THEN "none" ELSE "notReady"
                 /\ UNCHANGED <<videoTime, capOriginalTime>>
    /\ UNCHANGED duration
    /\ CaptureFrame

\* loadeddata arrives while the newer copy waits for the video
CaptureLoaded ==
    /\ capPc = "loading"
    /\ duration > 0
    /\ startCapture(capCopy, capTimestamp)
    /\ UNCHANGED <<duration, capCopy, capTimestamp, capStartTime>>
    /\ CaptureFrame

\* the 10 s timer of the wait for loadeddata fires
CaptureLoadTimeout ==
    /\ capPc = "loading"
    /\ capPc' = "rejected"
    /\ capExit' = "loadTimeout"
    /\ UNCHANGED <<duration, videoTime, capCopy, capTimestamp, capOriginalTime,
                   capStartTime>>
    /\ CaptureFrame

\* onSeeked: the frame is drawn, or drawImage / toDataURL throws
CaptureSeeked ==
    /\ capPc = "seeking"
    /\ \E drawn \in BOOLEAN :
         IF drawn
         THEN /\ videoTime' = capOriginalTime
              /\ capPc' = "resolved"
              /\ capExit' = "success"
         ELSE /\ capPc' = "rejected"
              /\ capExit' = "canvas"
              /\ UNCHANGED videoTime
    /\ UNCHANGED <<duration, capCopy, capTimestamp, capOriginalTime, capStartTime>>
    /\ CaptureFrame

\* onError: the seek failed
CaptureSeekError ==
    /\ capPc = "seeking"
    /\ capPc' = "rejected"
    /\ capExit' = "seekError"
    /\ UNCHANGED <<duration, videoTime, capCopy, capTimestamp, capOriginalTime,
                   capStartTime>>
    /\ CaptureFrame

\* the 5 s timer of the newer copy fires
CaptureTimeout ==
    /\ capPc = "seeking"
    /\ capCopy = "timed"
    /\ capPc' = "rejected"
    /\ capExit' = "timeout"
    /\ UNCHANGED <<duration, videoTime, capCopy, capTimestamp, capOriginalTime,
                   capStartTime>>
    /\ CaptureFrame

\* the caller takes the outcome
CaptureReturn ==
    /\ capPc \in { "resolved", "rejected" }
    /\ capPc' = "idle"
    /\ capExit' = "none"
    /\ UNCHANGED <<duration, videoTime, capCopy, capTimestamp, capOriginalTime,
                   capStartTime>>
    /\ CaptureFrame

InitCapture == GroupIdle /\ MockIdle /\ ZoomIdle /\ PageIdle /\ AudioIdle
      /\ CaptureIdle /\ lastEvent = "none"

NextCapture ==
    \/ LoadedMetadata
    \/ SeekBeforeCapture
    \/ CallCapture
    \/ CaptureLoaded
    \/ CaptureLoadTimeout
    \/ CaptureSeeked
    \/ CaptureSeekError
    \/ CaptureTimeout
    \/ CaptureReturn

SpecCapture == InitCapture /\ [][NextCapture]_vars

(***************************************************************************)
(* Claims about captureVideoFrame                                          *)
(***************************************************************************)
\* C17: captureVideoFrame leaves video.currentTime equal to the value it had
\* when the capture started on every exit path: success, canvas error, seek
\* error and timeout.
C17_PositionRestored ==
    capPc \in { "resolved", "rejected" } => videoTime = capStartTime

(***************************************************************************)
(* Specification SpecTranscript: the transcript editor on the video tab.   *)
(* A phrase is opened for editing, its text typed, and saved or cancelled; *)
(* the save hands the new list to the page and sends it to the service.    *)
(* The transcript arrives, is fetched again, and the tab is switched; the  *)
(* video reports no duration here, so that no step list is built.          *)
(***************************************************************************)
\* save requests of the transcript editor followed at the same time
MaxSaves == 2

\* the answers to a save request: response.ok, an error status, a throw
SaveOutcomes == { "saveOk", "saveStatus", "saveThrew" }

\* the phrase the textarea is rendered for: editingId === phrase.id
isEditing(ps, id) == \E k \in 1..Len(ps) : <<ps[k].id>> = id

\* handleEditStart, by a double click on a phrase while none is edited
EditStart ==
    /\ videoMounted
    /\ editingId = <<>>
    /\ \E k \in 1..Len(transcriptPhrases) :
         /\ editingId' = <<transcriptPhrases[k].id>>
         /\ editText' = transcriptPhrases[k].text
    /\ lastEvent' = "editStart"
    /\ UNCHANGED <<duration, transcriptPhrases, steps,
                   stepsCreatedFromTranscriptRef, capturingStepIds, captures,
                   transcriptFetch, videoMounted, videoListening, savesInFlight,
                   liveSaves, latestSave, isSaving, hasUnsavedChanges>>
    /\ PageFrame

\* onChange of the textarea: setEditText(e.target.value)
EditInput ==
    /\ videoMounted
    /\ isEditing(transcriptPhrases, editingId)
    /\ \E text \in EditTexts \cup { <<>> } :
         /\ text # editText
         /\ editText' = text
    /\ lastEvent' = "editInput"
    /\ UNCHANGED <<duration, transcriptPhrases, steps,
                   stepsCreatedFromTranscriptRef, capturingStepIds, captures,
                   transcriptFetch, videoMounted, videoListening, editingId,
                   savesInFlight, liveSaves, latestSave, isSaving,
                   hasUnsavedChanges>>
    /\ PageFrame

\* handleEditCancel, by the Escape key
EditCancel ==
    /\ videoMounted
    /\ isEditing(transcriptPhrases, editingId)
    /\ editingId' = <<>>
    /\ editText' = <<>>
    /\ lastEvent' = "editCancel"
    /\ UNCHANGED <<duration, transcriptPhrases, steps,
                   stepsCreatedFromTranscriptRef, capturingStepIds, captures,
                   transcriptFetch, videoMounted, videoListening, savesInFlight,
                   liveSaves, latestSave, isSaving, hasUnsavedChanges>>
    /\ PageFrame

\* handleEditSave(id), by the Enter key or the blur of the textarea: the
\* page takes the new list and its effects run, the edit is closed, and
\* saveTranscriptToBackend sends the request
EditSave ==
    /\ videoMounted
    /\ isEditing(transcriptPhrases, editingId)
    /\ savesInFlight < MaxSaves
    /\ Commit(duration,
              withPhraseText(transcriptPhrases, editingId[1], editText),
              steps, FALSE, TRUE)
    /\ editingId' = <<>>
    /\ editText' = <<>>
    /\ hasUnsavedChanges' = TRUE
    /\ isSaving' = TRUE
    /\ savesInFlight' = savesInFlight + 1
    /\ liveSaves' = liveSaves + 1
    /\ latestSave' = "inFlight"
    /\ lastEvent' = "editSave"
    /\ UNCHANGED <<transcriptFetch, videoMounted, videoListening>>
    /\ PageFrame

\* hasUnsavedChanges after the answer: setHasUnsavedChanges(false) on
\* response.ok, nothing otherwise
unsavedAfterSave(outcome, unsaved) == IF outcome = "saveOk" THEN FALSE ELSE unsaved

\* a request of saveTranscriptToBackend is answered: with an ok status, with
\* an error status, or the fetch throws; the answer is for the latest edit
\* of the mounted editor, for an earlier edit of it, or for an edit of an
\* editor that has been unmounted since (its state updates are dropped).
\* No branch sends the request again.
SaveSettled ==
    /\ savesInFlight > 0
    /\ savesInFlight' = savesInFlight - 1
    /\ \E outcome \in SaveOutcomes, answered \in { "latest", "earlier", "orphan" } :
         /\ lastEvent' = outcome
         /\ IF answered = "orphan"
            THEN /\ savesInFlight > liveSaves
                 /\ UNCHANGED <<liveSaves, latestSave, isSaving, hasUnsavedChanges>>
            ELSE /\ IF answered = "latest"
                    THEN /\ latestSave = "inFlight"
                         /\ latestSave' = IF outcome = "saveOk" THEN "ok"
                                          ELSE "failed"
                    ELSE /\ liveSaves > (IF latestSave = "inFlight" THEN 1 ELSE 0)
                         /\ UNCHANGED latestSave
                 /\ liveSaves' = liveSaves - 1
                 /\ hasUnsavedChanges' = unsavedAfterSave(outcome, hasUnsavedChanges)
                 /\ isSaving' = FALSE
    /\ UNCHANGED <<duration, transcriptPhrases, steps,
                   stepsCreatedFromTranscriptRef, capturingStepIds, captures,
                   transcriptFetch, videoMounted, videoListening, editingId,
                   editText>>
    /\ PageFrame

InitTranscript == InitPage

NextTranscript ==
    \/ TranscriptLoaded
    \/ Retranscribed
    \/ TabSwitch
    \/ EditStart
    \/ EditInput
    \/ EditCancel
    \/ EditSave
    \/ SaveSettled

SpecTranscript == InitTranscript /\ [][NextTranscript]_vars

(***************************************************************************)
(* Claims about the transcript editor                                      *)
(***************************************************************************)
\* C20: saving a phrase edit replaces the text of the phrase with the edited
\* id and nothing else: ids, times, order and number of phrases stay. The
\* answer to the save request, whether ok, an error status or a throw,
\* leaves the list as edited and sends no further request.
C20_EditSaveChangesOnlyText ==
    [][ /\ lastEvent' = "editSave" =>
            /\ Len(transcriptPhrases') = Len(transcriptPhrases)
            /\ \A k \in 1..Len(transcriptPhrases) :
                 transcriptPhrases'[k] =
                   IF <<transcriptPhrases[k].id>> = editingId
                   THEN [transcriptPhrases[k] EXCEPT !.text = editText]
                   ELSE transcriptPhrases[k]
        /\ lastEvent' \in SaveOutcomes =>
            /\ transcriptPhrases' = transcriptPhrases
            /\ savesInFlight' = savesInFlight - 1 ]_vars

\* the save of an edit threw, and the list still holds the edited text next
\* to a phrase that was not edited
C20_Witness ==
    /\ lastEvent = "saveThrew"
    /\ savesInFlight = 0
    /\ Len(transcriptPhrases) = 2
    /\ transcriptPhrases[1].text \in EditTexts
    /\ transcriptPhrases[2].text \notin EditTexts

\* C27: the unsaved-changes indicator is cleared only when the latest edit
\* has been persisted, and the saving indicator stays on while the save of
\* the latest edit is in flight: an answer to an earlier, overlapping save
\* changes neither.
C27_IndicatorsFollowLatestSave ==
    /\ latestSave \in { "inFlight", "failed" } => hasUnsavedChanges
    /\ latestSave = "inFlight" => isSaving

(***************************************************************************)
(* Specification SpecLive: the screenshot loops of the two builds followed *)
(* capture by capture on the video tab: captureFrameFromUrl on its own     *)
(* element, captureVideoFrame on the live video with its seek and its      *)
(* restore.                                                                *)
(***************************************************************************)
\* how a capture on the live video ends
LiveOutcomes == { "success", "canvas", "seekError", "timeout" }

LiveFrame ==
    UNCHANGED <<groupVars, mockVars, audioVars, captureVars, zoomConfig,
                currentZoom, zoomOrigin, dragMode, dragStartTime>>

\* captureFrameFromUrl settles for the step loop c is at: with the frame, or
\* with an error, and then the catch of the inner try calls
\* captureVideoFrame(videoRef.current!, captureTime)
UrlCaptureSettled(c) ==
    /\ c <= Len(captures)
    /\ captures[c].stage = "url"
    /\ \E ok \in BOOLEAN :
         IF ok
         THEN /\ SettleLoop(c, TRUE)
              /\ lastEvent' = "captureSettled"
         ELSE IF videoMounted
         THEN /\ captures' = [captures EXCEPT ![c].stage = "called"]
              /\ lastEvent' = "urlCaptureFailed"
              /\ UNCHANGED <<steps, capturingStepIds>>
         ELSE /\ SettleLoop(c, FALSE)
              /\ lastEvent' = "captureFailed"
    /\ UNCHANGED <<duration, transcriptPhrases, stepsCreatedFromTranscriptRef,
                   transcriptFetch, videoMounted, videoListening, videoTime>>
    /\ UNCHANGED editorVars
    /\ LiveFrame

\* the promise body of captureVideoFrame for loop c, at once or after the
\* wait for loadeddata: originalTime is stored and the video is sought
LiveSeek(c) ==
    /\ c <= Len(captures)
    /\ captures[c].stage = "called"
    /\ captures' = [captures EXCEPT ![c].stage = "seeking",
                                    ![c].originalTime = videoTime]
    /\ videoTime' = seekPosition(
                       clampedTimestamp(Num(captures[c].queue[1][2]), duration),
                       duration)
    /\ lastEvent' = "captureSeek"
    /\ UNCHANGED <<duration, transcriptPhrases, steps,
                   stepsCreatedFromTranscriptRef, capturingStepIds,
                   transcriptFetch, videoMounted, videoListening>>
    /\ UNCHANGED editorVars
    /\ LiveFrame

\* the capture of loop c on the live video settles: onSeeked draws and
\* restores, or drawing throws, or onError or the timer rejects
LiveSettled(c) ==
    /\ c <= Len(captures)
    /\ captures[c].stage = "seeking"
    /\ \E outcome \in LiveOutcomes :
         /\ SettleLoop(c, outcome = "success")
         /\ videoTime' = IF outcome = "success" THEN captures[c].originalTime
                         ELSE videoTime
         /\ lastEvent' = IF outcome = "success" THEN "captureSettled"
                         ELSE "captureFailed"
    /\ UNCHANGED <<duration, transcriptPhrases, stepsCreatedFromTranscriptRef,
                   transcriptFetch, videoMounted, videoListening>>
    /\ UNCHANGED editorVars
    /\ LiveFrame

\* the 10 s timer of the wait for loadeddata rejects the capture of loop c
LiveLoadTimeout(c) ==
    /\ c <= Len(captures)
    /\ captures[c].stage = "called"
    /\ SettleLoop(c, FALSE)
    /\ lastEvent' = "captureFailed"
    /\ UNCHANGED <<duration, transcriptPhrases, stepsCreatedFromTranscriptRef,
                   transcriptFetch, videoMounted, videoListening, videoTime>>
    /\ UNCHANGED editorVars
    /\ LiveFrame

InitLive == InitPage

NextLive ==
    \/ PageLoadedMetadata
    \/ TranscriptLoaded
    \/ \E c \in 1..MaxCaptures : UrlCaptureSettled(c)
    \/ \E c \in 1..MaxCaptures : LiveSeek(c)
    \/ \E c \in 1..MaxCaptures : LiveSettled(c)
    \/ \E c \in 1..MaxCaptures : LiveLoadTimeout(c)

SpecLive == InitLive /\ [][NextLive]_vars

(***************************************************************************)
(* Claims about captures on the live video                                 *)
(***************************************************************************)
\* the loops whose capture has sought the live video and not yet settled
seekingLoops == { c \in 1..Len(captures) : captures[c].stage = "seeking" }

\* C24: at most one capture is between its seek and its restore on the live
\* video at any time, for every interleaving of the loops that capture.
C24_OneLiveCapture == Cardinality(seekingLoops) <= 1

====
